---- MODULE Spec2Model ----
(***************************************************************************)
(* A model of homebridge-controller: the poll loop of main.rs running the  *)
(* two programs (turn_morning_lights_off.rs, control_evening_lights.rs)    *)
(* against the shared Homebridge session (homebridge.rs) and the SunTimes  *)
(* cache (suntimes.rs).                                                    *)
(*                                                                         *)
(* Time is counted in seconds of local time since local midnight of day 0. *)
(* A DateTime<Local> is such a number; its date_naive() is DateOf, its     *)
(* time() is TimeOf.  Daylight-saving shifts are not modelled.             *)
(***************************************************************************)
EXTENDS Integers, Sequences, FiniteSets, TLC

VARIABLES
    clock,                \* the wall clock read by Local::now()
    pc,                   \* position of main's loop
    env,                  \* the bridge and the time service, as the process finds them
    bulb,                 \* the accessory "Bed Light" as the bridge holds it
    lights_off_prog,      \* TurnMorningLightsOffProgram
    evening_lights_prog,  \* ControlEveningLightsProgram
    homebridge,           \* Homebridge
    suntimes,             \* SunTimes
    obs,                  \* what the last call or run did (history variable)
    daylog,               \* requests counted per calendar date (history variable)
    ramp,                 \* the last brightness the evening program wrote (history variable)
    call                  \* what the last call of a single operation did (history variable)

vars == <<clock, pc, env, bulb, lights_off_prog, evening_lights_prog,
          homebridge, suntimes, obs, daylog, ramp, call>>

----------------------------------------------------------------------------
(* Bounds of the model.                                                    *)

\* Days the clock may reach: dates 0 .. MaxDay.
MaxDay == 1
\* The second up to which the session is followed when it is called on its own.
MaxSessionClock == 62
\* A fault is injected into one of the first MaxFaultAt network exchanges of a call.
MaxFaultAt == 4
\* The per-date request counters stop counting here.
CountCap == 3

----------------------------------------------------------------------------
(* chrono: dates, times of day, Option.                                    *)

Day == 24 * 60 * 60
HMS(h, m, s) == (h * 60 + m) * 60 + s

DateOf(t) == t \div Day
TimeOf(t) == t % Day
\* Timelike::minute(): the minute of the hour, 0..59.
MinuteOf(t) == (t % (60 * 60)) \div 60
\* Timelike::num_seconds_from_midnight()
SecFromMidnight(t) == t % Day
\* NaiveTime + Duration wraps around midnight.
NaiveTimeAdd(t, secs) == (t + secs) % Day
Minutes(m) == m * 60

None == [some |-> FALSE, v |-> 0]
Some(x) == [some |-> TRUE, v |-> x]

Max(a, b) == IF a >= b THEN a ELSE b
Min(a, b) == IF a <= b THEN a ELSE b

----------------------------------------------------------------------------
(* The calls of one run are threaded through a record w ("the world"):     *)
(*   hb, st, bulb  the Homebridge, the SunTimes and the accessory          *)
(*   now           the wall clock                                          *)
(*   env           the bridge and the time service (see Init)              *)
(*   io            what the network does during this run:                  *)
(*                   fail_at, fail_kind  the exchange that goes wrong (0:  *)
(*                                       none) and how                    *)
(*                   lat                 seconds every exchange takes      *)
(*                   sun                 the time service's answer         *)
(*                   f32                 the sign of the f32 rounding error*)
(*   n             network exchanges made so far in this run               *)
(*   err, ret      the Result of the last call: err = "" stands for Ok(ret)*)
(*   logins, lists, gets, reqs   the requests made, by endpoint: login,    *)
(*                 accessory listing, accessory read, time service         *)
(*   puts          the PUTs that reached the bridge, in order              *)

Ok(w) == w.err = ""
Fail(w, e) == [w EXCEPT !.err = e]
Ret(w, x) == [w EXCEPT !.ret = x]

\* `let x = v;` followed by the rest of the body.
With(v, K(_)) == K(v)
\* `let x = call()?;` followed by the rest of the body.
AndThen(w, K(_)) == IF Ok(w) THEN K(w) ELSE w

\* One request/response over reqwest: it takes io.lat seconds.
Exchange(w) == [w EXCEPT !.n = @ + 1, !.now = @ + w.io.lat]
\* Whether the exchange just made went wrong in the given way:
\*   "transport"  send() returned Err
\*   "status"     the response carries an error status (and an error body)
\*   "body"       the status is fine and the body does not decode
Faulty(w, kind) == w.io.fail_at = w.n /\ w.io.fail_kind = kind
Undecodable(w) == Faulty(w, "status") \/ Faulty(w, "body")

----------------------------------------------------------------------------
(* homebridge.rs                                                           *)

\* The margin subtracted from expires_in.
TokenMargin == 60

NewHomebridge ==
    [access_token |-> None,
     access_token_expiration |-> None,
     accessory_uuids |-> <<>>]

\* HBLightbulbValues::is_on / is_off
is_on(values) == values.on = 1
is_off(values) == ~is_on(values)

\* A slip: a failed login drops the token and keeps its expiry.
renew_access_tokenDropsToken(w) ==
    With([Exchange(w) EXCEPT !.logins = @ + 1], LAMBDA w1 :
        IF Faulty(w1, "transport") THEN Fail(w1, "UnableToConnect")
        ELSE IF Faulty(w1, "status")
        THEN Fail([w1 EXCEPT !.hb.access_token = None], "AuthError")
        ELSE IF Faulty(w1, "body")
        THEN Fail([w1 EXCEPT !.hb.access_token = None], "ParsingError")
        ELSE [w1 EXCEPT
                !.hb.access_token = Some(w1.now),
                !.hb.access_token_expiration =
                    Some(w1.now + (w1.env.expires_in - TokenMargin))])

\* Homebridge::renew_access_token. The token is named by the instant it was issued.
renew_access_token(w) ==
    With([Exchange(w) EXCEPT !.logins = @ + 1], LAMBDA w1 :
        IF Faulty(w1, "transport") THEN Fail(w1, "UnableToConnect")
        ELSE IF Faulty(w1, "status") THEN Fail(w1, "AuthError")
        ELSE IF Faulty(w1, "body") THEN Fail(w1, "ParsingError")
        ELSE [w1 EXCEPT
                !.hb.access_token = Some(w1.now),
                !.hb.access_token_expiration =
                    Some(w1.now + (w1.env.expires_in - TokenMargin))])

\* Line 144: the stored expiry lies before now.
TokenExpired(hb, now) == hb.access_token_expiration.v < now

\* Homebridge::access_token
access_token(w) ==
    AndThen(IF ~w.hb.access_token.some \/ ~w.hb.access_token_expiration.some
            THEN renew_access_token(w)
            ELSE IF TokenExpired(w.hb, w.now)
                 THEN renew_access_token(w)
                 ELSE w,
            LAMBDA w1 :
        IF w1.hb.access_token.some
        THEN Ret(w1, w1.hb.access_token.v)
        ELSE Fail(w1, "NoAccessToken"))

\* A slip: the last accessory with this service name.
LastMatch(accessories, acc_name) ==
    LET hits == {i \in 1..Len(accessories) : accessories[i].service_name = acc_name}
    IN  IF hits = {} THEN 0
        ELSE CHOOSE i \in hits : \A j \in hits : i >= j

\* The first accessory of the listing with this service name (0: none).
FirstMatch(accessories, acc_name) ==
    LET hits == {i \in 1..Len(accessories) : accessories[i].service_name = acc_name}
    IN  IF hits = {} THEN 0
        ELSE CHOOSE i \in hits : \A j \in hits : i <= j

\* Homebridge::get_accessory_uuid
get_accessory_uuid(w, acc_name) ==
    IF acc_name \in DOMAIN w.hb.accessory_uuids
    THEN Ret(w, w.hb.accessory_uuids[acc_name])
    ELSE
      AndThen(access_token(w), LAMBDA w1 :
      With([Exchange(w1) EXCEPT !.lists = @ + 1], LAMBDA w2 :
      With(FirstMatch(w2.env.accessories, acc_name), LAMBDA i :
          IF Faulty(w2, "transport") THEN Fail(w2, "UnableToConnect")
          ELSE IF Undecodable(w2) THEN Fail(w2, "ParsingError")
          ELSE IF i = 0 THEN Fail(w2, "UnrecognizedAccessory")
          ELSE [w2 EXCEPT
                  !.hb.accessory_uuids =
                      (acc_name :> w2.env.accessories[i].unique_id)
                          @@ w2.hb.accessory_uuids,
                  !.ret = w2.env.accessories[i].unique_id])))

\* Homebridge::bed_light_uuid
bed_light_uuid(w) == get_accessory_uuid(w, "Bed Light")

\* Homebridge::get_bed_light_status; ret is the accessory's values.
get_bed_light_status(w) ==
    AndThen(access_token(w), LAMBDA w1 :
    AndThen(get_accessory_uuid(w1, "Bed Light"), LAMBDA w2 :
    With([Exchange(w2) EXCEPT !.gets = @ + 1], LAMBDA w3 :
        IF Faulty(w3, "transport") THEN Fail(w3, "UnableToConnect")
        ELSE IF Undecodable(w3) THEN Fail(w3, "ParsingError")
        ELSE Ret(w3, w3.bulb))))

\* Homebridge::bed_light_is_off
bed_light_is_off(w) ==
    AndThen(get_bed_light_status(w), LAMBDA w1 : Ret(w1, w1.ret.on = 0))

\* What the bridge does with an accepted PUT of one characteristic.
ApplyCharacteristic(values, characteristic, value) ==
    CASE characteristic = "On" -> [values EXCEPT !.on = value]
      [] characteristic = "Brightness" -> [values EXCEPT !.brightness = value]
      [] characteristic = "ColorTemperature" -> [values EXCEPT !.color_temperature = value]
      [] characteristic = "Hue" -> [values EXCEPT !.hue = value]
      [] characteristic = "Saturation" -> [values EXCEPT !.saturation = value]

\* The body of a PUT that reached the bridge.
Put(characteristic, value) == [characteristic |-> characteristic, value |-> value]

\* Homebridge::_set_bedlight. Only a transport failure is an error: the
\* response's status and body are not looked at, so a PUT the bridge refuses
\* returns Ok and leaves the accessory as it was.
_set_bedlight(w, characteristic, value) ==
    AndThen(access_token(w), LAMBDA w1 :
    AndThen(bed_light_uuid(w1), LAMBDA w2 :
    With(Exchange(w2), LAMBDA w3 :
        IF Faulty(w3, "transport") THEN Fail(w3, "UnableToConnect")
        ELSE IF Faulty(w3, "status")
        THEN [w3 EXCEPT !.puts = Append(@, Put(characteristic, value))]
        ELSE [w3 EXCEPT
                !.puts = Append(@, Put(characteristic, value)),
                !.bulb = ApplyCharacteristic(@, characteristic, value)])))

\* Homebridge::turn_bedlight_on, turn_bedlight_off, set_bedlight_brightness
turn_bedlight_on(w) == _set_bedlight(w, "On", 1)
turn_bedlight_off(w) == _set_bedlight(w, "On", 0)
set_bedlight_brightness(w, brightness) == _set_bedlight(w, "Brightness", brightness)

\* Homebridge::set_bedlight
set_bedlight(w, values) ==
    AndThen(_set_bedlight(w, "On", values.on), LAMBDA w1 :
    AndThen(_set_bedlight(w1, "Brightness", values.brightness), LAMBDA w2 :
    AndThen(_set_bedlight(w2, "ColorTemperature", values.color_temperature), LAMBDA w3 :
    AndThen(_set_bedlight(w3, "Hue", values.hue), LAMBDA w4 :
    _set_bedlight(w4, "Saturation", values.saturation)))))

----------------------------------------------------------------------------
(* suntimes.rs                                                             *)

NewSunTimes == [sunrise |-> None, sunset |-> None]

\* A slip: the sunrise is stored before the sunset is parsed.
collect_sunrise_sunset_dataPiecewise(w) ==
    With([Exchange(w) EXCEPT !.reqs = @ + 1], LAMBDA w1 :
        IF Faulty(w1, "transport") THEN Fail(w1, "panic")
        ELSE IF Undecodable(w1) THEN Fail(w1, "panic")
        ELSE IF ~w1.io.sun.sunrise.some THEN Fail(w1, "ParseError")
        ELSE IF ~w1.io.sun.sunset.some
        THEN Fail([w1 EXCEPT !.st.sunrise = Some(w1.io.sun.sunrise.v)], "ParseError")
        ELSE [w1 EXCEPT !.st.sunrise = Some(w1.io.sun.sunrise.v),
                        !.st.sunset = Some(w1.io.sun.sunset.v)])

\* SunTimes::collect_sunrise_sunset_data. A failed send() panics and so does
\* a body that does not decode (unwrap); a timestamp that does not parse is
\* an Err that leaves both fields alone.
collect_sunrise_sunset_data(w) ==
    With([Exchange(w) EXCEPT !.reqs = @ + 1], LAMBDA w1 :
        IF Faulty(w1, "transport") THEN Fail(w1, "panic")
        ELSE IF Undecodable(w1) THEN Fail(w1, "panic")
        ELSE IF ~w1.io.sun.sunrise.some THEN Fail(w1, "ParseError")
        ELSE IF ~w1.io.sun.sunset.some THEN Fail(w1, "ParseError")
        ELSE [w1 EXCEPT !.st.sunrise = Some(w1.io.sun.sunrise.v),
                        !.st.sunset = Some(w1.io.sun.sunset.v)])

\* SunTimes::sunrise
sunrise(w) ==
    IF w.st.sunrise.some /\ DateOf(w.st.sunrise.v) = DateOf(w.now)
    THEN Ret(w, w.st.sunrise.v)
    ELSE AndThen(collect_sunrise_sunset_data(w), LAMBDA w1 :
             IF w1.st.sunrise.some THEN Ret(w1, w1.st.sunrise.v)
             ELSE Fail(w1, "FailedAssumption"))

\* SunTimes::sunset
sunset(w) ==
    IF w.st.sunset.some /\ DateOf(w.st.sunset.v) = DateOf(w.now)
    THEN Ret(w, w.st.sunset.v)
    ELSE AndThen(collect_sunrise_sunset_data(w), LAMBDA w1 :
             IF w1.st.sunset.some THEN Ret(w1, w1.st.sunset.v)
             ELSE Fail(w1, "FailedAssumption"))

----------------------------------------------------------------------------
(* programs/turn_morning_lights_off.rs                                     *)

\* TurnMorningLightsOffProgram::new; off_time is the parsed NaiveTime.
\* Whether new() returns Ok: lines 36-40 only warn, the one error is an
\* off_time that is no time of day ("%H:%M:%S", lines 42-50).
MorningConfigAccepted(config) ==
    config.off_time.some => config.off_time.v \in 0..(Day - 1)

NewTurnMorningLightsOffProgram(config) ==
    [off_time |-> config.off_time,
     after_sunrise |-> config.after_sunrise,
     active |-> config.active,
     last_call_after_scheduled_off |-> config.last_call_after_scheduled_off,
     last_turned_light_off |-> None]

\* The result of a program's run: the program after it, the world after it
\* (w.err = "" for Ok(())), and the locals of the run the properties read.
RunResult(self, w, locals) == [self |-> self, w |-> w, locals |-> locals]

NoMorningLocals == [now |-> 0, off_time |-> None]

\* A slip: the sunrise offset is looked at first.
MorningOffTimeSunriseFirst(self, w) ==
    IF self.after_sunrise.some
    THEN AndThen(sunrise(w), LAMBDA w1 :
             Ret(w1, NaiveTimeAdd(TimeOf(w1.ret), Minutes(self.after_sunrise.v))))
    ELSE IF self.off_time.some THEN Ret(w, self.off_time.v)
    ELSE Fail(w, "ConfigError")

\* The match of lines 87-102: the world after it, ret the off-time.
MorningOffTime(self, w) ==
    IF self.off_time.some THEN Ret(w, self.off_time.v)
    ELSE IF self.after_sunrise.some
    THEN AndThen(sunrise(w), LAMBDA w1 :
             Ret(w1, NaiveTimeAdd(TimeOf(w1.ret), Minutes(self.after_sunrise.v))))
    ELSE Fail(w, "ConfigError")

\* A slip: no last call.
MorningNotDueNoLastCall(self, now, off_time) == TimeOf(now) < off_time

\* Lines 105-112: whether the run stops before the off-command.
MorningNotDue(self, now, off_time) ==
    \/ TimeOf(now) < off_time
    \/ NaiveTimeAdd(off_time, Minutes(self.last_call_after_scheduled_off)) < TimeOf(now)

\* A slip: the date is recorded without the read after the off-command.
MorningFireUnverified(self, w, now, locals) ==
    With(turn_bedlight_off(w), LAMBDA w1 :
        IF ~Ok(w1) THEN RunResult(self, w1, locals)
        ELSE RunResult([self EXCEPT !.last_turned_light_off = Some(now)],
                       w1, locals))

\* Lines 114-126: the off-command and the read after it.
MorningFire(self, w, now, locals) ==
    With(turn_bedlight_off(w), LAMBDA w1 :
        IF ~Ok(w1) THEN RunResult(self, w1, locals)
        ELSE With(bed_light_is_off(w1), LAMBDA w2 :
                 IF ~Ok(w2) THEN RunResult(self, w2, locals)
                 ELSE IF w2.ret
                 THEN RunResult([self EXCEPT !.last_turned_light_off = Some(now)],
                                w2, locals)
                 ELSE RunResult(self, w2, locals)))

\* A slip: having fired once, on any date, counts as having fired today.
MorningFiredEver(self, now) == self.last_turned_light_off.some

\* A slip: the instants are compared, not their dates.
MorningFiredTodaySameInstant(self, now) ==
    /\ self.last_turned_light_off.some
    /\ self.last_turned_light_off.v = now

\* Lines 79-84: already turned the light off today.
MorningFiredToday(self, now) ==
    /\ self.last_turned_light_off.some
    /\ DateOf(self.last_turned_light_off.v) = DateOf(now)

\* TurnMorningLightsOffProgram::run
TurnMorningLightsOffRun(self, w) ==
    IF ~self.active THEN RunResult(self, w, NoMorningLocals)
    ELSE IF MorningFiredToday(self, w.now)
    THEN RunResult(self, w, [now |-> w.now, off_time |-> None])
    ELSE
      With(MorningOffTime(self, w), LAMBDA w1 :
          IF ~Ok(w1) THEN RunResult(self, w1, [now |-> w.now, off_time |-> None])
          ELSE IF MorningNotDue(self, w.now, w1.ret)
          THEN RunResult(self, w1, [now |-> w.now, off_time |-> Some(w1.ret)])
          ELSE MorningFire(self, w1, w.now,
                           [now |-> w.now, off_time |-> Some(w1.ret)]))

----------------------------------------------------------------------------
(* programs/control_evening_lights.rs                                      *)

NoHistory == [some |-> FALSE, when |-> 0, brightness |-> 0]
SomeHistory(when, brightness) ==
    [some |-> TRUE, when |-> when, brightness |-> brightness]

\* The two checks of ControlEveningLightsProgram::new.
EveningConfigAccepted(config) ==
    /\ (-1 * config.minutes_before_sunset_start) <= config.minutes_after_sunset_peak
    /\ config.minutes_after_sunset_peak <= config.minutes_after_sunset_finish

\* ControlEveningLightsProgram::new, for an accepted configuration.
NewControlEveningLightsProgram(config) ==
    [active |-> config.active,
     minutes_before_sunset_start |-> config.minutes_before_sunset_start,
     minutes_after_sunset_peak |-> config.minutes_after_sunset_peak,
     minutes_after_sunset_finish |-> config.minutes_after_sunset_finish,
     start_brightness |-> config.start_brightness,
     max_brightness |-> config.max_brightness,
     final_brightness |-> config.final_brightness,
     history |-> NoHistory]

Abs(a) == IF a < 0 THEN -a ELSE a

\* `x as u8`: saturating.
AsU8(x) == IF x < 0 THEN 0 ELSE IF x > 255 THEN 255 ELSE x

(* Lines 116-120: the line through (c1s, c1b) and (c2s, c2b) at nows, in    *)
(* f32, cast to u8.  The exact value is N/D.  Each of the three f32         *)
(* operations (the division, the product, the sum) rounds within 2^-24 of   *)
(* its result, so the computed value lies within T/D of N/D, where          *)
(* T = (2|num*x| + |N|) / 2^24; f32err < 0 takes the error downwards and    *)
(* f32err > 0 upwards, as far as that changes the truncated value.  With    *)
(* num = 0 or x = 0 the operations are exact.  A zero denominator gives an  *)
(* infinite slope or NaN: NaN and -inf cast to 0, +inf to 255.              *)
InterpolateF32(c1b, c1s, c2b, c2s, nows, f32err) ==
    LET num == c1b - c2b
        den == c1s - c2s
        x == nows - c1s
    IN  IF den = 0
        THEN IF num = 0 \/ x = 0 THEN 0
             ELSE IF (num > 0) = (x > 0) THEN 255 ELSE 0
        ELSE
          LET sgn == IF den > 0 THEN 1 ELSE -1
              D == den * sgn
              N == (c1b * den + num * x) * sgn
              q == N \div D
              r == N - q * D
              T == (2 * Abs(num * x) + Abs(N)) \div (2 ^ 24)
              exact == num = 0 \/ x = 0
              lo == IF ~exact /\ r <= T THEN q - 1 ELSE q
              hi == IF ~exact /\ r # 0 /\ D - r <= T THEN q + 1 ELSE q
          IN  AsU8(IF f32err < 0 THEN lo ELSE hi)

\* ControlEveningLightsProgram::current_brightness
current_brightness(self, now, sunset_at, f32err) ==
    LET start_time == sunset_at - Minutes(self.minutes_before_sunset_start)
        peak_time == sunset_at + Minutes(self.minutes_after_sunset_peak)
        end_time == sunset_at + Minutes(self.minutes_after_sunset_finish)
    IN  IF now <= peak_time
        THEN InterpolateF32(self.start_brightness, SecFromMidnight(start_time),
                            self.max_brightness, SecFromMidnight(peak_time),
                            SecFromMidnight(now), f32err)
        ELSE InterpolateF32(self.max_brightness, SecFromMidnight(peak_time),
                            self.final_brightness, SecFromMidnight(end_time),
                            SecFromMidnight(now), f32err)

\* Lines 139-143
InPhaseA(self, now, sunset_at) ==
    /\ sunset_at - Minutes(self.minutes_before_sunset_start) <= now
    /\ now <= sunset_at + Minutes(self.minutes_after_sunset_peak)
InPhaseB(self, now, sunset_at) ==
    /\ sunset_at + Minutes(self.minutes_after_sunset_peak) < now
    /\ now <= sunset_at + Minutes(self.minutes_after_sunset_finish)

\* A slip: the brightness is not compared with the recorded one.
EveningStandsBackOffOnly(self, current_bulb, now) ==
    \/ is_off(current_bulb) /\ self.history.some
    \/ self.history.some /\ MinuteOf(self.history.when) = MinuteOf(now)

\* Lines 162-176: the bulb was switched off or dimmed by someone else, or
\* the program already wrote in this minute.
EveningStandsBack(self, current_bulb, now) ==
    \/ is_off(current_bulb) /\ self.history.some
    \/ /\ self.history.some
       /\ \/ current_bulb.brightness # self.history.brightness
          \/ MinuteOf(self.history.when) = MinuteOf(now)

\* A slip: the target is not clamped.
EveningTargetUnclamped(self, current_bulb, now, sunset_at, f32err) ==
    current_brightness(self, now, sunset_at, f32err)

\* Lines 178-185: the target, clamped by the phase.
EveningTarget(self, current_bulb, now, sunset_at, f32err) ==
    LET new_brightness == current_brightness(self, now, sunset_at, f32err)
    IN  IF InPhaseA(self, now, sunset_at)
        THEN Max(new_brightness, current_bulb.brightness)
        ELSE IF InPhaseB(self, now, sunset_at)
        THEN Min(new_brightness, current_bulb.brightness)
        ELSE new_brightness

\* A slip: the history is recorded whether the brightness write returns Ok
\* or an error.
EveningWriteRecordsAnyway(self, w, now, new_brightness, locals) ==
    With(bed_light_is_off(w), LAMBDA w1 :
        IF ~Ok(w1) THEN RunResult(self, w1, locals)
        ELSE
          With(IF w1.ret THEN turn_bedlight_on(w1) ELSE w1, LAMBDA w2 :
              IF ~Ok(w2) THEN RunResult(self, w2, locals)
              ELSE
                With(set_bedlight_brightness(w2, new_brightness), LAMBDA w3 :
                    RunResult([self EXCEPT
                                 !.history = SomeHistory(now, new_brightness)],
                              w3, locals))))

\* A slip: the bulb is switched on whether it reads off or not.
EveningWriteAlwaysOn(self, w, now, new_brightness, locals) ==
    With(turn_bedlight_on(w), LAMBDA w2 :
        IF ~Ok(w2) THEN RunResult(self, w2, locals)
        ELSE
          With(set_bedlight_brightness(w2, new_brightness), LAMBDA w3 :
              IF ~Ok(w3) THEN RunResult(self, w3, locals)
              ELSE RunResult([self EXCEPT
                                !.history = SomeHistory(now, new_brightness)],
                             w3, locals)))

\* Lines 195-207: switch on if off, write the brightness, record it.
EveningWrite(self, w, now, new_brightness, locals) ==
    With(bed_light_is_off(w), LAMBDA w1 :
        IF ~Ok(w1) THEN RunResult(self, w1, locals)
        ELSE
          With(IF w1.ret THEN turn_bedlight_on(w1) ELSE w1, LAMBDA w2 :
              IF ~Ok(w2) THEN RunResult(self, w2, locals)
              ELSE
                With(set_bedlight_brightness(w2, new_brightness), LAMBDA w3 :
                    IF ~Ok(w3) THEN RunResult(self, w3, locals)
                    ELSE RunResult([self EXCEPT
                                      !.history = SomeHistory(now, new_brightness)],
                                   w3, locals))))

NoEveningLocals ==
    [now |-> 0, sunset |-> None, in_a |-> FALSE, in_b |-> FALSE,
     current_bulb |-> None, new_brightness |-> None]

\* The locals of a run that got as far as the phases (lines 130-143).
EveningLocals(self, now, sunset_at) ==
    [NoEveningLocals EXCEPT !.now = now, !.sunset = Some(sunset_at),
                            !.in_a = InPhaseA(self, now, sunset_at),
                            !.in_b = InPhaseB(self, now, sunset_at)]

\* A slip: every target is written.
EveningAdjustNoSkip(self, w, now, current_bulb, new_brightness, locals) ==
    EveningWrite(self, w, now, new_brightness,
                 [locals EXCEPT !.new_brightness = Some(new_brightness)])

\* Lines 178-207: the target, the skip of a zero or unchanged one, the write.
EveningAdjust(self, w, now, current_bulb, new_brightness, locals) ==
    IF new_brightness = 0 \/ new_brightness = current_bulb.brightness
    THEN RunResult(self, w, [locals EXCEPT !.new_brightness = Some(new_brightness)])
    ELSE EveningWrite(self, w, now, new_brightness,
                      [locals EXCEPT !.new_brightness = Some(new_brightness)])

\* Lines 159-176: the read of the bulb and the history checks.
EveningInWindow(self, w, now, sunset_at, locals) ==
    With(get_bed_light_status(w), LAMBDA w2 :
        IF ~Ok(w2) THEN RunResult(self, w2, locals)
        ELSE IF EveningStandsBack(self, w2.ret, now)
        THEN RunResult(self, w2, [locals EXCEPT !.current_bulb = Some(w2.ret)])
        ELSE EveningAdjust(self, w2, now, w2.ret,
                           EveningTarget(self, w2.ret, now, sunset_at, w2.io.f32),
                           [locals EXCEPT !.current_bulb = Some(w2.ret)]))

\* A slip: the history outlives the window.
EveningOutsideWindowKeepsHistory(self, w, locals) == RunResult(self, w, locals)

\* Lines 151-157: outside the window the history is dropped.
EveningOutsideWindow(self, w, locals) ==
    RunResult([self EXCEPT !.history = NoHistory], w, locals)

\* ControlEveningLightsProgram::run
ControlEveningLightsRun(self, w) ==
    With(sunset(w), LAMBDA w1 :
        IF ~Ok(w1) THEN RunResult(self, w1, NoEveningLocals)
        ELSE IF ~InPhaseA(self, w1.now, w1.ret) /\ ~InPhaseB(self, w1.now, w1.ret)
        THEN EveningOutsideWindow(self, w1, EveningLocals(self, w1.now, w1.ret))
        ELSE EveningInWindow(self, w1, w1.now, w1.ret,
                             EveningLocals(self, w1.now, w1.ret)))

----------------------------------------------------------------------------
(* The configurations, the bridge and the time service the model runs      *)
(* against, and the instants at which main's loop wakes up.                *)

MorningConfig(off_time, after_sunrise, active, last_call) ==
    [off_time |-> off_time, after_sunrise |-> after_sunrise, active |-> active,
     last_call_after_scheduled_off |-> last_call]

MorningConfigs ==
    { MorningConfig(Some(HMS(6, 30, 0)), None, TRUE, 30),
      MorningConfig(Some(HMS(23, 50, 0)), None, TRUE, 30),
      MorningConfig(None, Some(30), TRUE, 30) }

EveningConfig(active, lead, peak, finish, sb, mb, fb) ==
    [active |-> active,
     minutes_before_sunset_start |-> lead,
     minutes_after_sunset_peak |-> peak,
     minutes_after_sunset_finish |-> finish,
     start_brightness |-> sb, max_brightness |-> mb, final_brightness |-> fb]

EveningConfigs ==
    { EveningConfig(TRUE, 30, 0, 60, 10, 80, 5),
      EveningConfig(TRUE, 30, 30, 120, 10, 80, 5),
      EveningConfig(TRUE, 30, 0, 60, 80, 10, 40) }

\* GET /api/accessories, as the bridge answers it.
BedLightListing ==
    << [service_name |-> "Desk Lamp", unique_id |-> "id-desk"],
       [service_name |-> "Bed Light", unique_id |-> "id-bed"] >>

\* The local times of day of sunrise and sunset the time service reports.
SunriseTime == HMS(6, 0, 0)
SunsetTime == HMS(18, 0, 0)

\* The times of day at which the loop wakes up: around the morning's
\* off-time, around the evening's window, around midnight.
MorningTimes ==
    {HMS(6, 29, 0), HMS(6, 31, 0), HMS(6, 45, 0), HMS(7, 1, 0)}
EveningTimes ==
    {HMS(17, 29, 0), HMS(17, 30, 0), HMS(17, 45, 0), HMS(18, 0, 0), HMS(18, 30, 0),
     HMS(19, 0, 0), HMS(20, 1, 0)}
MidnightTimes == {HMS(0, 10, 0), HMS(23, 55, 0)}

\* The ways an exchange goes wrong in the runs of the loop.
FaultKinds == {"transport", "status"}

(* The surroundings of the process, fixed for a run of it:                 *)
(*   expires_in   of the bridge's login answer, in seconds                 *)
(*   accessories  the bridge's answer to GET /api/accessories              *)
(*   wakeups      the times of day at which the loop wakes up              *)
(*   latencies    the seconds a network exchange may take                  *)
(*   fault_kinds  the ways an exchange may go wrong                        *)
Env(expires_in, accessories, wakeups, latencies) ==
    [expires_in |-> expires_in, accessories |-> accessories,
     wakeups |-> wakeups, latencies |-> latencies, fault_kinds |-> FaultKinds]

Probes(e) == {d * Day + t : d \in 0..MaxDay, t \in e.wakeups}

\* What the accessory may be set to from outside the process.
OutsideValues == {[on |-> 0, brightness |-> 10], [on |-> 1, brightness |-> 10],
                  [on |-> 1, brightness |-> 60]}
Bulb(v) ==
    [on |-> v.on, brightness |-> v.brightness,
     color_temperature |-> 300, hue |-> 0, saturation |-> 0]

\* The answers of the time service on a given local date: both instants of
\* that date, both of the next date (the service's "today" is the UTC date),
\* or one timestamp that does not parse.
SunAnswers(today) ==
    { [sunrise |-> Some(today * Day + SunriseTime),
       sunset |-> Some(today * Day + SunsetTime)],
      [sunrise |-> Some((today + 1) * Day + SunriseTime),
       sunset |-> Some((today + 1) * Day + SunsetTime)],
      [sunrise |-> None, sunset |-> Some(today * Day + SunsetTime)],
      [sunrise |-> Some(today * Day + SunriseTime), sunset |-> None] }

\* The run without a fault, with the time service answering for today.
PlainIO(lat, today) ==
    [fail_at |-> 0, fail_kind |-> "none", lat |-> lat,
     sun |-> [sunrise |-> Some(today * Day + SunriseTime),
              sunset |-> Some(today * Day + SunsetTime)],
     f32 |-> 1]

\* The world at the start of a run.
World(io) ==
    [hb |-> homebridge, st |-> suntimes, bulb |-> bulb, now |-> clock,
     env |-> env, io |-> io, n |-> 0, err |-> "", ret |-> 0,
     logins |-> 0, lists |-> 0, gets |-> 0, puts |-> <<>>, reqs |-> 0]

\* Lines 113-119 and 121-127 of main.rs: the two runs of a tick.
MorningRun(io) == TurnMorningLightsOffRun(lights_off_prog, World(io))
EveningRun(io) == ControlEveningLightsRun(evening_lights_prog, World(io))

(* Everything the network may do during a run: any latency, any answer of  *)
(* the time service, either sign of the rounding error, and a fault in any *)
(* one exchange up to the MaxFaultAt-th.  Only the choices the run can     *)
(* tell apart are listed: the time service's answer when the run without a *)
(* fault asks for it, the rounding error when the run interpolates, a      *)
(* fault in an exchange the run makes.                                     *)
SunChoices(plain, io) ==
    IF plain.w.reqs > 0
    THEN {[io EXCEPT !.sun = sun] : sun \in SunAnswers(DateOf(clock))}
    ELSE {io}
RoundingChoices(r, io) ==
    IF r.locals.new_brightness.some THEN {io, [io EXCEPT !.f32 = -1]} ELSE {io}
FaultChoices(w, io) ==
    {io} \cup
    { [io EXCEPT !.fail_at = k, !.fail_kind = kind] :
        k \in 1..Min(w.n, MaxFaultAt), kind \in env.fault_kinds }

MorningIOs ==
    UNION { UNION { FaultChoices(MorningRun(io).w, io) :
                      io \in SunChoices(MorningRun(PlainIO(lat, DateOf(clock))),
                                        PlainIO(lat, DateOf(clock))) } :
            lat \in env.latencies }
EveningIOs ==
    UNION { UNION { UNION { FaultChoices(EveningRun(io).w, io) :
                              io \in RoundingChoices(EveningRun(ios), ios) } :
                      ios \in SunChoices(EveningRun(PlainIO(lat, DateOf(clock))),
                                         PlainIO(lat, DateOf(clock))) } :
            lat \in env.latencies }

----------------------------------------------------------------------------
(* History variables.                                                      *)

NoRun == [ran |-> FALSE]

\* Per calendar date: the off-commands the morning program sent and those it
\* saw confirmed by the read after them (kept by the loop); the requests
\* sunrise() and sunset() made to the time service and those of them that
\* failed (kept when SunTimes is called on its own).  The date is the one on
\* which the run or the call started.
NewDayLog(date) ==
    [date |-> date, offs |-> 0, confirmed |-> 0, refreshes |-> 0, failed |-> 0]
Add(n, k) == Min(n + k, CountCap)
DayLogToday(log) ==
    IF log.date = DateOf(clock) THEN log ELSE NewDayLog(DateOf(clock))

\* What a run did: the program before and after, the world after, the bulb
\* at its start and at its end, and the log of its date at its start.
RunObs(before, r) ==
    [ran |-> TRUE, start |-> clock, bulb |-> bulb, hb |-> homebridge, ramp |-> ramp,
     log |-> DayLogToday(daylog), bulb_end |-> r.w.bulb,
     before |-> before, after |-> r.self, locals |-> r.locals,
     err |-> r.w.err, logins |-> r.w.logins, lists |-> r.w.lists,
     gets |-> r.w.gets, puts |-> r.w.puts, reqs |-> r.w.reqs]

FreshObs == [m |-> NoRun, e |-> NoRun]

\* The off-commands among the PUTs of a run.
OffCommands(puts) ==
    Cardinality({i \in 1..Len(puts) : puts[i] = Put("On", 0)})

\* The log of the date after a call of SunTimes, after a run of the morning
\* program.
SunDayLog(log, w) ==
    [DayLogToday(log) EXCEPT
       !.refreshes = Add(@, w.reqs),
       !.failed = Add(@, IF w.reqs > 0 /\ w.err \in {"panic", "ParseError"}
                         THEN 1 ELSE 0)]
MorningDayLog(log, before, r) ==
    [DayLogToday(log) EXCEPT
       !.offs = Add(@, OffCommands(r.w.puts)),
       !.confirmed = Add(@, IF r.self.last_turned_light_off
                                 # before.last_turned_light_off
                            THEN 1 ELSE 0)]

\* What a single call did: the receiver before and after, the Result.
NoCall == [op |-> "none"]
CallObs(op, w) ==
    [op |-> op, start |-> clock, hb |-> homebridge, st |-> suntimes,
     now |-> w.now, hb_after |-> w.hb, st_after |-> w.st,
     err |-> w.err, ret |-> w.ret, logins |-> w.logins, reqs |-> w.reqs]

\* The brightness writes among the PUTs of a run.
BrightnessWrites(puts) ==
    SelectSeq(puts, LAMBDA p : p.characteristic = "Brightness")
\* The last brightness written, with the phase and the sunset of its run,
\* and whether a run since then found itself outside the window.
NoRamp == [some |-> FALSE, in_a |-> FALSE, value |-> 0, sunset |-> 0, left |-> FALSE]
EveningRamp(last, r) ==
    IF BrightnessWrites(r.w.puts) # <<>>
    THEN [some |-> TRUE, in_a |-> r.locals.in_a,
          value |-> BrightnessWrites(r.w.puts)[1].value,
          sunset |-> r.locals.sunset.v, left |-> FALSE]
    ELSE IF last.some /\ r.locals.sunset.some /\ ~r.locals.in_a /\ ~r.locals.in_b
    THEN [last EXCEPT !.left = TRUE]
    ELSE last

----------------------------------------------------------------------------
(* main.rs: the loop.                                                      *)

\* The state main reaches before its loop, for any of the given
\* configurations and surroundings.
InitWith(mcs, ecs, envs) ==
    /\ env \in envs
    /\ pc = "sleep"
    /\ bulb = Bulb([on |-> 1, brightness |-> 10])
    /\ \E mc \in mcs :
          /\ MorningConfigAccepted(mc)
          /\ lights_off_prog = NewTurnMorningLightsOffProgram(mc)
    /\ \E ec \in ecs :
          /\ EveningConfigAccepted(ec)
          /\ evening_lights_prog = NewControlEveningLightsProgram(ec)
    /\ homebridge = NewHomebridge
    /\ suntimes = NewSunTimes
    /\ obs = FreshObs
    /\ daylog = NewDayLog(0)
    /\ ramp = NoRamp
    /\ call = NoCall

\* The state after lights_off_prog.run(...) returned r; a panic ends the process.
MorningDone(r) ==
    /\ lights_off_prog' = r.self
    /\ homebridge' = r.w.hb
    /\ suntimes' = r.w.st
    /\ bulb' = r.w.bulb
    /\ clock' = r.w.now
    /\ obs' = [obs EXCEPT !.m = RunObs(lights_off_prog, r)]
    /\ daylog' = MorningDayLog(daylog, lights_off_prog, r)
    /\ pc' = IF r.w.err = "panic" THEN "crashed" ELSE "evening"

\* Lines 113-119: lights_off_prog.run(...)
MorningStep ==
    /\ pc = "morning"
    /\ \E io \in MorningIOs : MorningDone(MorningRun(io))
    /\ UNCHANGED <<env, evening_lights_prog, ramp, call>>

\* The state after evening_lights_prog.run(...) returned r.
EveningDone(r) ==
    /\ evening_lights_prog' = r.self
    /\ homebridge' = r.w.hb
    /\ suntimes' = r.w.st
    /\ bulb' = r.w.bulb
    /\ clock' = r.w.now
    /\ obs' = [obs EXCEPT !.e = RunObs(evening_lights_prog, r)]
    /\ ramp' = EveningRamp(ramp, r)
    /\ pc' = IF r.w.err = "panic" THEN "crashed" ELSE "sleep"

\* Lines 121-127: evening_lights_prog.run(...)
EveningStep ==
    /\ pc = "evening"
    /\ \E io \in EveningIOs : EveningDone(EveningRun(io))
    /\ UNCHANGED <<env, lights_off_prog, daylog, call>>

\* Line 131: the pause; the loop wakes up at a later instant.
Sleep ==
    /\ pc = "sleep"
    /\ \E t \in Probes(env) : t > clock /\ clock' = t
    /\ pc' = "morning"
    /\ obs' = FreshObs
    /\ UNCHANGED <<env, bulb, lights_off_prog, evening_lights_prog,
                   homebridge, suntimes, daylog, ramp, call>>

\* Someone else sets the accessory while the process sleeps.
Outside ==
    /\ pc = "sleep"
    /\ \E v \in OutsideValues :
          bulb' = [bulb EXCEPT !.on = v.on, !.brightness = v.brightness]
    /\ bulb' # bulb
    /\ obs' = FreshObs
    /\ UNCHANGED <<clock, pc, env, lights_off_prog, evening_lights_prog,
                   homebridge, suntimes, daylog, ramp, call>>

Next == MorningStep \/ EveningStep \/ Sleep \/ Outside

\* The instants at which the loop wakes up when both programs are at work.
BothTimes == {HMS(6, 31, 0), HMS(6, 45, 0), HMS(18, 0, 0), HMS(18, 30, 0)}

\* Both programs at work, against a bridge whose login outlives the day, one
\* whose login outlives the margin by a second while every exchange takes a
\* second, and one whose login is shorter than the margin.
Init ==
    /\ clock = HMS(0, 0, 0)
    /\ InitWith({MorningConfig(Some(HMS(6, 30, 0)), None, TRUE, 30)},
                {EveningConfig(TRUE, 30, 0, 60, 10, 80, 5)},
                {Env(8 * 60 * 60, BedLightListing, BothTimes, {0}),
                 Env(61, BedLightListing, BothTimes, {1}),
                 Env(30, BedLightListing, BothTimes, {0})})

Spec == Init /\ [][Next]_vars

\* Both programs at work, against a bridge whose login outlives the day.
InitBoth ==
    /\ clock = HMS(0, 0, 0)
    /\ InitWith({MorningConfig(Some(HMS(6, 30, 0)), None, TRUE, 30)},
                {EveningConfig(TRUE, 30, 0, 60, 10, 80, 5)},
                {Env(8 * 60 * 60, BedLightListing, BothTimes, {0})})

SpecBoth == InitBoth /\ [][Next]_vars

\* Both programs configured with active = false.
InitInactive ==
    /\ clock = HMS(0, 0, 0)
    /\ InitWith({MorningConfig(Some(HMS(6, 30, 0)), None, FALSE, 30)},
                {EveningConfig(FALSE, 30, 0, 60, 10, 80, 5)},
                {Env(8 * 60 * 60, BedLightListing, BothTimes, {0})})

SpecInactive == InitInactive /\ [][Next]_vars

\* The morning program in its configurations; the loop wakes up around the
\* off-time and around midnight, outside the evening's window.
InitMorning ==
    /\ clock = HMS(0, 0, 0)
    /\ InitWith(MorningConfigs, {EveningConfig(TRUE, 30, 0, 60, 10, 80, 5)},
                {Env(x, BedLightListing, MorningTimes \cup MidnightTimes, {0}) :
                    x \in {30, 8 * 60 * 60}})

SpecMorning == InitMorning /\ [][Next]_vars

\* The evening program in its configurations, the morning program switched
\* off; the loop wakes up before, inside and after the evening's window.
InitEvening ==
    /\ clock = HMS(0, 0, 0)
    /\ InitWith({MorningConfig(Some(HMS(6, 30, 0)), None, FALSE, 30)}, EveningConfigs,
                {Env(8 * 60 * 60, BedLightListing, EveningTimes, {0})})

SpecEvening == InitEvening /\ [][Next]_vars

\* The evening program with a ramp that ends at brightness 0.
InitEveningToZero ==
    /\ clock = HMS(0, 0, 0)
    /\ InitWith({MorningConfig(Some(HMS(6, 30, 0)), None, FALSE, 30)},
                {EveningConfig(TRUE, 30, 0, 60, 10, 80, 0)},
                {Env(8 * 60 * 60, BedLightListing, EveningTimes, {0})})

SpecEveningToZero == InitEveningToZero /\ [][Next]_vars

\* The morning program configured with both off_time and after_sunrise
\* (06:30:00, and 50 minutes after the sunrise of 06:00:00), with neither,
\* and with an off_time that does not parse ("25:00:00").
MorningConfigsBothOrNeither ==
    { MorningConfig(Some(HMS(6, 30, 0)), Some(50), TRUE, 30),
      MorningConfig(None, None, TRUE, 30),
      MorningConfig(Some(HMS(25, 0, 0)), None, TRUE, 30) }

InitMorningChoice ==
    /\ clock = HMS(0, 0, 0)
    /\ InitWith(MorningConfigsBothOrNeither,
                {EveningConfig(TRUE, 30, 0, 60, 10, 80, 5)},
                {Env(8 * 60 * 60, BedLightListing, MorningTimes, {0})})

SpecMorningChoice == InitMorningChoice /\ [][Next]_vars

----------------------------------------------------------------------------
(* current_brightness on its own: any accepted configuration, any sunset,  *)
(* the instants of the window.                                             *)

InterpBrightness == {<<10, 80, 5>>, <<80, 80, 5>>, <<80, 10, 40>>, <<0, 255, 255>>}
InterpConfigs ==
    { EveningConfig(TRUE, lead, peak, finish, b[1], b[2], b[3]) :
        lead \in {-10, 0, 30}, peak \in {0, 30, 60}, finish \in {60, 90},
        b \in InterpBrightness }
InterpSunsets == {HMS(18, 0, 0), HMS(16, 7, 13), HMS(23, 45, 0)}

\* start, peak and end of the window, an instant next to the peak in each
\* phase, and the middle of each phase.
InterpInstants(self, sunset_at) ==
    { sunset_at - Minutes(self.minutes_before_sunset_start),
      sunset_at + Minutes(self.minutes_after_sunset_peak),
      sunset_at + Minutes(self.minutes_after_sunset_finish),
      sunset_at + Minutes(self.minutes_after_sunset_peak) - 7,
      sunset_at + Minutes(self.minutes_after_sunset_peak) + 7,
      sunset_at + (Minutes(self.minutes_after_sunset_peak)
                     - Minutes(self.minutes_before_sunset_start)) \div 2,
      sunset_at + (Minutes(self.minutes_after_sunset_peak)
                     + Minutes(self.minutes_after_sunset_finish)) \div 2 }

InitInterp ==
    /\ env = Env(8 * 60 * 60, BedLightListing, {}, {0})
    /\ clock = HMS(0, 0, 0)
    /\ pc = "current_brightness"
    /\ bulb = Bulb([on |-> 1, brightness |-> 10])
    /\ lights_off_prog =
          NewTurnMorningLightsOffProgram(MorningConfig(Some(HMS(6, 30, 0)), None, TRUE, 30))
    /\ \E ec \in InterpConfigs :
          /\ EveningConfigAccepted(ec)
          /\ evening_lights_prog = NewControlEveningLightsProgram(ec)
    /\ homebridge = NewHomebridge
    /\ \E s \in InterpSunsets :
          suntimes = [sunrise |-> Some(SunriseTime), sunset |-> Some(s)]
    /\ obs = FreshObs
    /\ daylog = NewDayLog(0)
    /\ ramp = NoRamp
    /\ call = NoCall

\* self.current_brightness(&now, &sunset), line 178
CurrentBrightnessCall ==
    /\ pc = "current_brightness"
    /\ \E now \in InterpInstants(evening_lights_prog, suntimes.sunset.v),
          f32err \in {-1, 1} :
          /\ clock' = now
          /\ call' = [op |-> "current_brightness", now |-> now,
                      sunset |-> suntimes.sunset.v,
                      ret |-> current_brightness(evening_lights_prog, now,
                                                 suntimes.sunset.v, f32err)]
    /\ UNCHANGED <<pc, env, bulb, lights_off_prog, evening_lights_prog,
                   homebridge, suntimes, obs, daylog, ramp>>

SpecInterp == InitInterp /\ [][CurrentBrightnessCall]_vars

----------------------------------------------------------------------------
(* SunTimes on its own: sunrise() and sunset() called in any order, at any *)
(* of a few instants of the day.                                           *)

SunCallTimes == {HMS(5, 0, 0), HMS(12, 0, 0), HMS(21, 0, 0)}

\* What the network may do during one call of sunrise() or of sunset().
SunAnswerIOs ==
    {[PlainIO(0, DateOf(clock)) EXCEPT !.sun = sun] : sun \in SunAnswers(DateOf(clock))}
SunriseIOs == UNION {FaultChoices(sunrise(World(io)), io) : io \in SunAnswerIOs}
SunsetIOs == UNION {FaultChoices(sunset(World(io)), io) : io \in SunAnswerIOs}

InitSun ==
    /\ InitWith({MorningConfig(None, Some(30), TRUE, 30)},
                {EveningConfig(TRUE, 30, 0, 60, 10, 80, 5)},
                {Env(8 * 60 * 60, BedLightListing, SunCallTimes, {0})})
    /\ clock \in SunCallTimes

\* The state after a call of SunTimes returned; a panic ends the process.
SunCallDone(op, w) ==
    /\ suntimes' = w.st
    /\ clock' = w.now
    /\ call' = CallObs(op, w)
    /\ daylog' = SunDayLog(daylog, w)
    /\ pc' = IF w.err = "panic" THEN "crashed" ELSE pc
    /\ UNCHANGED <<env, bulb, lights_off_prog, evening_lights_prog, homebridge,
                   obs, ramp>>

\* suntimes.sunrise(client)
SunriseCall ==
    /\ pc = "sleep"
    /\ \E io \in SunriseIOs : SunCallDone("sunrise", sunrise(World(io)))

\* suntimes.sunset(client)
SunsetCall ==
    /\ pc = "sleep"
    /\ \E io \in SunsetIOs : SunCallDone("sunset", sunset(World(io)))

\* Time passes between two calls.
SunTimePasses ==
    /\ pc = "sleep"
    /\ \E t \in Probes(env) : t > clock /\ clock' = t
    /\ UNCHANGED <<pc, env, bulb, lights_off_prog, evening_lights_prog,
                   homebridge, suntimes, obs, daylog, ramp, call>>

NextSun == SunriseCall \/ SunsetCall \/ SunTimePasses

SpecSun == InitSun /\ [][NextSun]_vars

----------------------------------------------------------------------------
(* Homebridge::access_token on its own: called at any second, against a    *)
(* bridge whose logins last shorter or longer than the margin.             *)

SessionExpiries == {30, 60, 61, 120}
SessionFaultKinds == {"transport", "status", "body"}

InitSession ==
    /\ clock = 0
    /\ InitWith({MorningConfig(Some(HMS(6, 30, 0)), None, TRUE, 30)},
                {EveningConfig(TRUE, 30, 0, 60, 10, 80, 5)},
                {[Env(x, BedLightListing, {}, {0, 1})
                    EXCEPT !.fault_kinds = SessionFaultKinds] : x \in SessionExpiries})

\* What the network may do during one call of access_token().
AccessTokenIOs ==
    UNION { FaultChoices(access_token(World(PlainIO(lat, 0))), PlainIO(lat, 0)) :
              lat \in env.latencies }

\* The last call of access_token before now returned an error.
FailedCall == [op |-> "failed"]
LoginFailedBefore ==
    \/ call = FailedCall
    \/ call.op = "access_token" /\ call.err # ""

\* homebridge.access_token(client)
AccessTokenCall ==
    /\ pc = "sleep"
    /\ clock < MaxSessionClock
    /\ \E io \in AccessTokenIOs :
          /\ homebridge' = access_token(World(io)).hb
          /\ clock' = access_token(World(io)).now
          /\ call' = CallObs("access_token", access_token(World(io)))
                        @@ [after_failed |-> LoginFailedBefore]
    /\ UNCHANGED <<pc, env, bulb, lights_off_prog, evening_lights_prog, suntimes,
                   obs, daylog, ramp>>

\* Time passes between two calls.
SessionTimePasses ==
    /\ pc = "sleep"
    /\ \E d \in {1, 30} : clock + d <= MaxSessionClock /\ clock' = clock + d
    /\ call' = IF LoginFailedBefore THEN FailedCall ELSE NoCall
    /\ UNCHANGED <<pc, env, bulb, lights_off_prog, evening_lights_prog,
                   homebridge, suntimes, obs, daylog, ramp>>

NextSession == AccessTokenCall \/ SessionTimePasses

SpecSession == InitSession /\ [][NextSession]_vars

----------------------------------------------------------------------------
(* Homebridge::get_accessory_uuid on its own: asked for any name, against  *)
(* a bridge whose listing changes between calls.                           *)

Accessory(service_name, unique_id) ==
    [service_name |-> service_name, unique_id |-> unique_id]

\* Listings: the usual one; one with two accessories of the same name and
\* one whose name differs in case; one without the bed light; an empty one.
AccessoryListings ==
    { BedLightListing,
      << Accessory("Bed Light", "id-bed-2"), Accessory("bed light", "id-lower"),
         Accessory("Bed Light", "id-bed") >>,
      << Accessory("Desk Lamp", "id-desk") >>,
      << >> }

AccessoryNames == {"Bed Light", "bed light", "Hall Light"}

InitAccessory ==
    /\ clock = 0
    /\ InitWith({MorningConfig(Some(HMS(6, 30, 0)), None, TRUE, 30)},
                {EveningConfig(TRUE, 30, 0, 60, 10, 80, 5)},
                {[Env(8 * 60 * 60, l, {}, {0})
                    EXCEPT !.fault_kinds = SessionFaultKinds] : l \in AccessoryListings})

\* What a call of get_accessory_uuid did.
AccessoryCallObs(acc_name, w) ==
    [op |-> "get_accessory_uuid", acc_name |-> acc_name,
     listing |-> env.accessories, hb |-> homebridge, hb_after |-> w.hb,
     err |-> w.err, ret |-> w.ret, logins |-> w.logins, lists |-> w.lists]

\* homebridge.get_accessory_uuid(client, acc_name)
AccessoryCall ==
    /\ pc = "sleep"
    /\ \E acc_name \in AccessoryNames :
       \E io \in FaultChoices(get_accessory_uuid(World(PlainIO(0, 0)), acc_name),
                              PlainIO(0, 0)) :
          /\ homebridge' = get_accessory_uuid(World(io), acc_name).hb
          /\ call' = AccessoryCallObs(acc_name, get_accessory_uuid(World(io), acc_name))
    /\ UNCHANGED <<clock, pc, env, bulb, lights_off_prog, evening_lights_prog,
                   suntimes, obs, daylog, ramp>>

\* The bridge's accessories change between two calls.
ListingChanges ==
    /\ pc = "sleep"
    /\ \E l \in AccessoryListings \ {env.accessories} :
          env' = [env EXCEPT !.accessories = l]
    /\ call' = NoCall
    /\ UNCHANGED <<clock, pc, bulb, lights_off_prog, evening_lights_prog,
                   homebridge, suntimes, obs, daylog, ramp>>

NextAccessory == AccessoryCall \/ ListingChanges

SpecAccessory == InitAccessory /\ [][NextAccessory]_vars

----------------------------------------------------------------------------
(* Homebridge::set_bedlight on its own: called with any values, the        *)
(* network failing in at most one exchange of a call.                      *)

LightValues ==
    { [on |-> 1, brightness |-> 60, color_temperature |-> 300, hue |-> 0,
       saturation |-> 0],
      [on |-> 0, brightness |-> 10, color_temperature |-> 250, hue |-> 120,
       saturation |-> 50],
      [on |-> 1, brightness |-> 100, color_temperature |-> 200, hue |-> 10,
       saturation |-> 10] }

InitSetLight ==
    /\ clock = 0
    /\ InitWith({MorningConfig(Some(HMS(6, 30, 0)), None, TRUE, 30)},
                {EveningConfig(TRUE, 30, 0, 60, 10, 80, 5)},
                {Env(8 * 60 * 60, BedLightListing, {}, {0})})

\* What a call of set_bedlight did.
SetLightObs(values, w) ==
    [op |-> "set_bedlight", values |-> values, bulb |-> bulb, bulb_after |-> w.bulb,
     err |-> w.err, puts |-> w.puts, logins |-> w.logins, lists |-> w.lists]

\* homebridge.set_bedlight(client, values)
SetBedlightCall ==
    /\ pc = "sleep"
    /\ \E values \in LightValues :
       \E io \in FaultChoices(set_bedlight(World(PlainIO(0, 0)), values),
                              PlainIO(0, 0)) :
          /\ homebridge' = set_bedlight(World(io), values).hb
          /\ bulb' = set_bedlight(World(io), values).bulb
          /\ call' = SetLightObs(values, set_bedlight(World(io), values))
    /\ UNCHANGED <<clock, pc, env, lights_off_prog, evening_lights_prog,
                   suntimes, obs, daylog, ramp>>

NextSetLight == SetBedlightCall \/ Outside

SpecSetLight == InitSetLight /\ [][NextSetLight]_vars

----------------------------------------------------------------------------
(* Properties of TurnMorningLightsOffProgram, over SpecMorning.            *)

\* The requests a run made to the bridge: none.
NoBridgeRequest(run) ==
    run.puts = <<>> /\ run.gets = 0 /\ run.lists = 0 /\ run.logins = 0

\* Whether the program, as it was before the run, had turned the light off
\* on the date the run started.
FiredOnDateOfRun(run) ==
    /\ run.before.last_turned_light_off.some
    /\ DateOf(run.before.last_turned_light_off.v) = DateOf(run.start)

\* The time of day t lies in [off, off + window minutes], an interval that
\* may pass midnight.
InsideLastCall(t, off, window) == (t - off) % Day <= Minutes(window)

\* C1: once the program has recorded turning the light off on a date, every
\* later run on that date makes no request to the bridge and leaves the
\* program as it is, at any time of day and in any state of the bulb.
C1_AtMostOnceAfterFiring ==
    (obs.m.ran /\ FiredOnDateOfRun(obs.m))
        => NoBridgeRequest(obs.m) /\ obs.m.after = obs.m.before

\* A run inside the last-call window on a date the program already fired
\* on, with the bulb switched on again.
C1_Witness ==
    /\ obs.m.ran /\ FiredOnDateOfRun(obs.m)
    /\ obs.m.before.off_time.some
    /\ obs.m.before.off_time.v <= TimeOf(obs.m.start)
    /\ TimeOf(obs.m.start) <= obs.m.before.off_time.v + Minutes(30)
    /\ obs.m.bulb.on = 1

\* C2: an active program with a configured off_time that has not fired
\* today, run at a time of day inside [off_time, off_time + last call] (also
\* when that interval passes midnight) while the bulb is on, sends exactly
\* one off-command in that run, unless a request of the run fails.
C2_FiresInsideLastCall ==
    ( /\ obs.m.ran
      /\ obs.m.before.active
      /\ obs.m.before.off_time.some
      /\ ~FiredOnDateOfRun(obs.m)
      /\ InsideLastCall(TimeOf(obs.m.start), obs.m.before.off_time.v,
                        obs.m.before.last_call_after_scheduled_off)
      /\ obs.m.bulb.on = 1
      /\ obs.m.err = "" )
        => OffCommands(obs.m.puts) = 1

\* The effective off-time of a run that has one.
HasOffTime(run) == run.before.off_time.some \/ run.locals.off_time.some
OffTimeOf(run) ==
    IF run.before.off_time.some THEN run.before.off_time.v
    ELSE run.locals.off_time.v

\* C3: a run whose time of day is before the off-time, or after the off-time
\* plus the last-call window, sends nothing to the bridge and leaves
\* last_turned_light_off alone, whatever the bulb and whatever was recorded.
C3_NothingOutsideLastCall ==
    ( /\ obs.m.ran /\ HasOffTime(obs.m)
      /\ \/ TimeOf(obs.m.start) < OffTimeOf(obs.m)
         \/ TimeOf(obs.m.start) > OffTimeOf(obs.m)
                + Minutes(obs.m.before.last_call_after_scheduled_off) )
        => /\ NoBridgeRequest(obs.m)
           /\ obs.m.after.last_turned_light_off = obs.m.before.last_turned_light_off

\* A run after the last call on a date not fired on, with the bulb on.
C3_Witness ==
    /\ obs.m.ran /\ obs.m.before.active /\ HasOffTime(obs.m)
    /\ ~FiredOnDateOfRun(obs.m)
    /\ TimeOf(obs.m.start) > OffTimeOf(obs.m)
          + Minutes(obs.m.before.last_call_after_scheduled_off)
    /\ obs.m.bulb.on = 1

\* C4: on one calendar date the program sends at most one off-command.
C4_AtMostOneOffCommandPerDate == daylog.offs <= 1

\* C4, amended: on one calendar date at most one off-command is confirmed
\* by the read after it.
C4_AtMostOneConfirmedPerDate == daylog.confirmed <= 1

\* A date with a second off-command, after a first one that the read after
\* it did not confirm.
C4_Witness == daylog.offs >= 2 /\ daylog.confirmed = 1

----------------------------------------------------------------------------
(* Properties of ControlEveningLightsProgram, over SpecEvening.            *)

\* The run was inside the window and read the bulb.
ReadInWindow(run) ==
    /\ run.ran
    /\ run.locals.in_a \/ run.locals.in_b
    /\ run.locals.current_bulb.some

\* C5: in a run inside the window with a history, where the bulb as read is
\* off or has a brightness other than the recorded one, the program writes
\* nothing (no switch-on, no brightness) and leaves its history as it is.
C5_CedesToExternalControl ==
    ( /\ ReadInWindow(obs.e)
      /\ obs.e.before.history.some
      /\ \/ is_off(obs.e.locals.current_bulb.v)
         \/ obs.e.locals.current_bulb.v.brightness # obs.e.before.history.brightness )
        => /\ obs.e.puts = <<>>
           /\ obs.e.after.history = obs.e.before.history

\* A run in the window that finds the bulb on, at a brightness other than
\* the one the program wrote last, in another minute than that write.
C5_Witness ==
    /\ ReadInWindow(obs.e)
    /\ obs.e.before.history.some
    /\ is_on(obs.e.locals.current_bulb.v)
    /\ obs.e.locals.current_bulb.v.brightness # obs.e.before.history.brightness
    /\ MinuteOf(obs.e.before.history.when) # MinuteOf(obs.e.locals.now)

\* The run wrote a brightness.
WroteBrightness(run) == run.ran /\ BrightnessWrites(run.puts) # <<>>
WrittenBrightness(run) == BrightnessWrites(run.puts)[1].value

\* The run wrote a brightness, and the write before it was made in the same
\* phase under the same sunset.
SuccessiveInPhase(run) ==
    /\ WroteBrightness(run)
    /\ run.ramp.some
    /\ run.ramp.sunset = run.locals.sunset.v
    /\ run.ramp.in_a = run.locals.in_a

\* C6: under one sunset the brightness written never falls from one write to
\* the next in phase A and never rises in phase B; and every brightness
\* written is at least the brightness read in that run in phase A, at most
\* it in phase B.
C6_MonotoneWrites ==
    /\ SuccessiveInPhase(obs.e) =>
          IF obs.e.locals.in_a
          THEN WrittenBrightness(obs.e) >= obs.e.ramp.value
          ELSE WrittenBrightness(obs.e) <= obs.e.ramp.value
    /\ WroteBrightness(obs.e) =>
          IF obs.e.locals.in_a
          THEN WrittenBrightness(obs.e) >= obs.e.locals.current_bulb.v.brightness
          ELSE WrittenBrightness(obs.e) <= obs.e.locals.current_bulb.v.brightness

\* A second write in phase A, higher than the first, under the same sunset.
C6_Witness ==
    /\ SuccessiveInPhase(obs.e)
    /\ obs.e.locals.in_a
    /\ WrittenBrightness(obs.e) > obs.e.ramp.value

----------------------------------------------------------------------------
(* Properties of current_brightness, over SpecInterp.                      *)

Within1(a, b) == Abs(a - b) <= 1

\* Where two of start, peak and end fall together, the configuration asks
\* for one brightness there.
OneBrightnessPerInstant(self) ==
    /\ -self.minutes_before_sunset_start = self.minutes_after_sunset_peak
          => self.start_brightness = self.max_brightness
    /\ self.minutes_after_sunset_peak = self.minutes_after_sunset_finish
          => self.max_brightness = self.final_brightness

\* C7: for every accepted configuration and every sunset, the interpolated
\* brightness is start_brightness at the start of the window, max_brightness
\* at the peak and final_brightness at the end, each within 1.
C7_BoundaryValues ==
    (call.op = "current_brightness" /\ OneBrightnessPerInstant(evening_lights_prog)) =>
      /\ call.now = call.sunset - Minutes(evening_lights_prog.minutes_before_sunset_start)
            => Within1(call.ret, evening_lights_prog.start_brightness)
      /\ call.now = call.sunset + Minutes(evening_lights_prog.minutes_after_sunset_peak)
            => Within1(call.ret, evening_lights_prog.max_brightness)
      /\ call.now = call.sunset + Minutes(evening_lights_prog.minutes_after_sunset_finish)
            => Within1(call.ret, evening_lights_prog.final_brightness)

----------------------------------------------------------------------------
(* Properties of SunTimes, over SpecSun.                                   *)

\* C8: on one calendar date at most one request goes to the time service,
\* whatever sunrise() and sunset() calls are made on it and whatever
\* instants the service returns, as long as no request fails.
C8_OneRefreshPerDate == daylog.failed = 0 => daylog.refreshes <= 1

----------------------------------------------------------------------------
(* Properties of the Homebridge session.                                   *)

\* Both runs of a tick are over, and no request of them failed.
TickDone == pc = "sleep" /\ obs.m.ran /\ obs.e.ran
TickFaultless == obs.m.err = "" /\ obs.e.err = ""
TickLogins == obs.m.logins + obs.e.logins
TickBridgeRequests ==
    obs.m.lists + obs.e.lists + obs.m.gets + obs.e.gets
        + Len(obs.m.puts) + Len(obs.e.puts)

\* The session as the tick found it: a token whose stored expiry (the
\* bridge's expiry less the margin) lies after the start of the tick, or a
\* token that is missing or whose stored expiry lies before it.
TokenValidAtTick ==
    /\ obs.m.hb.access_token.some
    /\ obs.m.hb.access_token_expiration.some
    /\ obs.m.hb.access_token_expiration.v > obs.m.start
TokenExpiredAtTick ==
    \/ ~obs.m.hb.access_token.some
    \/ ~obs.m.hb.access_token_expiration.some
    \/ obs.m.hb.access_token_expiration.v < obs.m.start

\* C9: over the authenticated calls of one tick the session logs in at most
\* once when the token it holds is valid beyond the margin at the start of
\* the tick, and exactly once when the token is expired then, whatever
\* expires_in the bridge answers with (no request of the tick failing).
C9_LoginsPerTick ==
    (TickDone /\ TickFaultless) =>
      /\ TokenValidAtTick => TickLogins <= 1
      /\ (TokenExpiredAtTick /\ TickBridgeRequests > 0) => TickLogins = 1

\* The token the call found is cached with an expiry after the call's start.
CachedAtCall ==
    /\ call.hb.access_token.some
    /\ call.hb.access_token_expiration.some
    /\ call.hb.access_token_expiration.v > call.start

\* C10: access_token returns the cached token without a login exactly when
\* a token is cached and its expiry lies after now; otherwise it makes one
\* login exchange and, the login succeeding, stores the expiry now +
\* expires_in - 60 s and returns the new token.
C10_EnsureToken ==
    call.op = "access_token" =>
      IF CachedAtCall
      THEN call.logins = 0 /\ call.err = "" /\ call.ret = call.hb.access_token.v
      ELSE /\ call.logins = 1
           /\ call.err = "" =>
                 /\ call.hb_after.access_token_expiration
                       = Some(call.now + env.expires_in - TokenMargin)
                 /\ call.ret = call.hb_after.access_token.v

----------------------------------------------------------------------------
(* Properties of failing requests, over Spec.                              *)

\* The run ended in an error or a panic.
RunFailed(run) == run.ran /\ run.err # ""

\* C11: when an operation of the bridge session or of SunTimes fails during a
\* program's run, the run returns an error, the program's state (the date it
\* last turned the light off, the history) is what it was before the run,
\* the other program is still run in the same tick, and the loop goes on to
\* its next tick.
C11_FailureLeavesStateAndLoop ==
    /\ RunFailed(obs.m) =>
          /\ obs.m.after = obs.m.before
          /\ pc \in {"evening", "sleep"}
          /\ pc = "sleep" => obs.e.ran
    /\ RunFailed(obs.e) =>
          /\ obs.e.after = obs.e.before
          /\ pc = "sleep"

\* The run asked the time service and the request failed: the transport
\* failed, or the body of the answer did not decode or did not parse.
SolarRequestFailed(run) ==
    run.ran /\ run.reqs > 0 /\ run.err \in {"panic", "ParseError"}

\* C12: a failed request to the time service is an error returned to the
\* program, whose run ends for this tick; the process does not terminate
\* and the loop goes on.
C12_SolarFailureNotFatal ==
    /\ SolarRequestFailed(obs.m) => obs.m.err # "panic" /\ pc # "crashed"
    /\ SolarRequestFailed(obs.e) => obs.e.err # "panic" /\ pc # "crashed"

----------------------------------------------------------------------------
(* Properties of the morning program's configuration, over                 *)
(* SpecMorningChoice.                                                      *)

\* C13: new() fails for a configuration with neither off_time nor
\* after_sunrise, so no program without both is ever run by the loop.
C13_NeitherIsRejected ==
    obs.m.ran => (obs.m.before.off_time.some \/ obs.m.before.after_sunrise.some)

BothConfigured(run) ==
    run.ran /\ run.before.off_time.some /\ run.before.after_sunrise.some

\* C14: with both off_time and after_sunrise configured, the off-time of
\* every run that computes one is off_time; the run sends its off-command
\* inside [off_time, off_time + last call] only, sends it there when the
\* program has not fired today and no request fails, and never asks the
\* time service.
C14_OffTimeTakesPrecedence ==
    BothConfigured(obs.m) =>
        /\ obs.m.reqs = 0
        /\ obs.m.locals.off_time.some
               => obs.m.locals.off_time.v = obs.m.before.off_time.v
        /\ OffCommands(obs.m.puts) > 0
               => InsideLastCall(TimeOf(obs.m.start), obs.m.before.off_time.v,
                                 obs.m.before.last_call_after_scheduled_off)
        /\ ( /\ obs.m.before.active /\ ~FiredOnDateOfRun(obs.m)
             /\ obs.m.err = ""
             /\ obs.m.before.off_time.v <= TimeOf(obs.m.start)
             /\ TimeOf(obs.m.start) <= obs.m.before.off_time.v
                    + Minutes(obs.m.before.last_call_after_scheduled_off) )
               => OffCommands(obs.m.puts) = 1

\* The program fires by off_time at an instant before sunrise plus the
\* offset.
C14_Witness ==
    /\ BothConfigured(obs.m)
    /\ OffCommands(obs.m.puts) = 1
    /\ obs.m.after.last_turned_light_off = Some(obs.m.start)
    /\ TimeOf(obs.m.start) < SunriseTime + Minutes(obs.m.before.after_sunrise.v)

----------------------------------------------------------------------------
(* The writes of one run, over SpecBoth.                                   *)

\* C15: in one tick each of the two programs sends at most one write (PUT)
\* to the bridge.
C15_AtMostOneWritePerRun ==
    /\ obs.m.ran => Len(obs.m.puts) <= 1
    /\ obs.e.ran => Len(obs.e.puts) <= 1

\* The switch-on commands among the PUTs of a run.
OnCommands(puts) == SelectSeq(puts, LAMBDA p : p = Put("On", 1))

\* C15, amended: in one tick the morning program sends at most one write;
\* the evening program sends at most one brightness write, and the only
\* other write it sends is one switch-on command before the brightness
\* write, in a run where the bulb was off.
C15_OneBrightnessWritePerRun ==
    /\ obs.m.ran => Len(obs.m.puts) <= 1
    /\ obs.e.ran =>
          /\ Len(BrightnessWrites(obs.e.puts)) <= 1
          /\ Len(OnCommands(obs.e.puts)) <= 1
          /\ Len(obs.e.puts)
                = Len(BrightnessWrites(obs.e.puts)) + Len(OnCommands(obs.e.puts))
          /\ OnCommands(obs.e.puts) # <<>>
                => obs.e.puts[1] = Put("On", 1) /\ obs.e.bulb.on = 0

\* The evening program finds the bulb off and sends the switch-on command
\* and the brightness write; the morning program sent its off-command in a
\* run of its own.
C15_Witness ==
    /\ obs.e.ran /\ obs.e.bulb.on = 0
    /\ Len(obs.e.puts) = 2
    /\ obs.e.puts[2].characteristic = "Brightness"
    /\ daylog.offs > 0

----------------------------------------------------------------------------
(* The read after the off-command and the next date, over SpecMorning.     *)

\* On the date of the run an off-command was sent before it, and none was
\* confirmed.
UnconfirmedToday(run) ==
    /\ run.ran
    /\ run.log.date = DateOf(run.start)
    /\ run.log.offs >= 1 /\ run.log.confirmed = 0

\* The time of day of the run lies in [off-time, off-time + last call].
InOffWindow(run) ==
    /\ HasOffTime(run)
    /\ OffTimeOf(run) <= TimeOf(run.start)
    /\ TimeOf(run.start)
          <= OffTimeOf(run) + Minutes(run.before.last_call_after_scheduled_off)

\* C16: a run assigns last_turned_light_off, to its own instant, only when
\* the read made after its off-command reports the bulb off; when that read
\* reports the bulb on, last_turned_light_off is what it was, and the next
\* run inside [off-time, off-time + last call] sends the off-command again
\* (unless one of its requests fails).
C16_DateSetOnlyWhenReadBackOff ==
    /\ (obs.m.ran /\ obs.m.after # obs.m.before) =>
          /\ obs.m.after = [obs.m.before EXCEPT
                              !.last_turned_light_off = Some(obs.m.locals.now)]
          /\ OffCommands(obs.m.puts) = 1
          /\ obs.m.gets = 1 /\ obs.m.err = ""
          /\ obs.m.bulb_end.on = 0
    /\ (obs.m.ran /\ OffCommands(obs.m.puts) = 1 /\ obs.m.bulb_end.on = 1)
          => obs.m.after = obs.m.before
    /\ (UnconfirmedToday(obs.m) /\ InOffWindow(obs.m) /\ obs.m.err = "")
          => OffCommands(obs.m.puts) = 1

\* An off-command of an earlier run of the date was not confirmed and the
\* bulb is on; this run, still inside the last call, sends the off-command
\* again and records the date.
C16_Witness ==
    /\ UnconfirmedToday(obs.m) /\ InOffWindow(obs.m)
    /\ obs.m.bulb.on = 1
    /\ OffCommands(obs.m.puts) = 1
    /\ obs.m.after.last_turned_light_off = Some(obs.m.start)

\* The program turned the light off on an earlier date than the run's.
FiredOnEarlierDate(run) ==
    /\ run.ran
    /\ run.before.last_turned_light_off.some
    /\ DateOf(run.before.last_turned_light_off.v) < DateOf(run.start)

\* C17: after the program turned the light off on a date, a run on a later
\* date whose time of day lies inside [off-time, off-time + last call] sends
\* an off-command again (unless one of its requests fails); nothing but the
\* date of the run re-arms the program.
C17_RearmsOnLaterDate ==
    ( /\ FiredOnEarlierDate(obs.m) /\ obs.m.before.active
      /\ InOffWindow(obs.m) /\ obs.m.err = "" )
        => OffCommands(obs.m.puts) = 1

\* The program fired yesterday, and today's run inside the window sends the
\* off-command and records today.
C17_Witness ==
    /\ FiredOnEarlierDate(obs.m) /\ InOffWindow(obs.m)
    /\ OffCommands(obs.m.puts) = 1
    /\ obs.m.after.last_turned_light_off = Some(obs.m.start)
    /\ DateOf(obs.m.start) = DateOf(obs.m.before.last_turned_light_off.v) + 1

----------------------------------------------------------------------------
(* The history outside the window and the debounce, over SpecEvening.      *)

\* The run got the sunset and its instant is in neither phase.
FoundOutsideWindow(run) ==
    run.ran /\ run.locals.sunset.some /\ ~run.locals.in_a /\ ~run.locals.in_b

\* C18: every run whose instant is in neither phase (of the sunset it got)
\* ends with no history and sends nothing to the bridge; so a history is
\* never present once such a run has been made since it was recorded.
C18_OutsideWindowClears ==
    /\ FoundOutsideWindow(obs.e)
          => obs.e.after.history = NoHistory /\ NoBridgeRequest(obs.e)
    /\ evening_lights_prog.history.some => ~ramp.left

\* On a later date a run inside the window finds no history, a brightness
\* having been written and a run outside the window made since.
C18_Witness ==
    /\ obs.e.ran /\ (obs.e.locals.in_a \/ obs.e.locals.in_b)
    /\ obs.e.ramp.some /\ obs.e.ramp.left
    /\ DateOf(obs.e.ramp.sunset) < DateOf(obs.e.start)
    /\ obs.e.before.history = NoHistory

\* The run reached the debounce (lines 172-175): inside the window, with a
\* history, the bulb read on and at the recorded brightness.
ReachedDebounce(run) ==
    /\ ReadInWindow(run)
    /\ run.before.history.some
    /\ ~is_off(run.locals.current_bulb.v)
    /\ run.locals.current_bulb.v.brightness = run.before.history.brightness

\* Two instants of the same date, hour and minute.
SameClockMinute(t1, t2) == t1 \div 60 = t2 \div 60

\* C19: the debounce stops a run, before any target is computed, exactly
\* when the history's instant lies in the same clock minute (date, hour and
\* minute) as now; a run in another clock minute is not stopped by it.
C19_DebounceSameClockMinute ==
    ReachedDebounce(obs.e) =>
        ( obs.e.locals.new_brightness = None
            <=> SameClockMinute(obs.e.before.history.when, obs.e.locals.now) )

----------------------------------------------------------------------------
(* The targets that are not written, over SpecEveningToZero.               *)

\* The run computed a target that is 0 or the brightness it read.
TargetZeroOrUnchanged(run) ==
    /\ run.ran /\ run.locals.new_brightness.some
    /\ \/ run.locals.new_brightness.v = 0
       \/ run.locals.new_brightness.v = run.locals.current_bulb.v.brightness

\* C20: no run writes the brightness 0 or the brightness it read from the
\* bulb; a run whose target is 0 or the brightness read sends no write at
\* all and leaves the history as it was.
C20_NoZeroOrUnchangedWrite ==
    /\ WroteBrightness(obs.e) =>
          /\ WrittenBrightness(obs.e) # 0
          /\ obs.e.locals.current_bulb.some
          /\ WrittenBrightness(obs.e) # obs.e.locals.current_bulb.v.brightness
    /\ TargetZeroOrUnchanged(obs.e) =>
          /\ obs.e.puts = <<>>
          /\ obs.e.after.history = obs.e.before.history

\* At the end of the window the target is 0 while the bulb is on at a
\* brightness the program wrote: nothing is sent.
C20_Witness ==
    /\ TargetZeroOrUnchanged(obs.e)
    /\ obs.e.locals.new_brightness.v = 0
    /\ obs.e.locals.current_bulb.v.on = 1
    /\ obs.e.locals.current_bulb.v.brightness > 0
    /\ obs.e.before.history.some
    /\ obs.e.puts = <<>>

----------------------------------------------------------------------------
(* The write of the evening program, over SpecEvening.                     *)

\* The run is inside the window, is not stopped by the history checks, and
\* its clamped target is neither 0 nor the brightness read.
TargetToWrite(run) ==
    /\ ReadInWindow(run)
    /\ run.locals.new_brightness.some
    /\ ~TargetZeroOrUnchanged(run)

\* C21: a run with a target to write sends the switch-on command before the
\* brightness write exactly when the bulb is off, then one brightness write
\* with the target, and records history = (now, target) only when that
\* write returned Ok; no run records a history without a brightness write
\* that returned Ok.
C21_WriteThenRecord ==
    /\ TargetToWrite(obs.e) =>
          /\ OnCommands(obs.e.puts) # <<>> => is_off(obs.e.locals.current_bulb.v)
          /\ (is_off(obs.e.locals.current_bulb.v) /\ WroteBrightness(obs.e))
                => obs.e.puts = << Put("On", 1),
                                   Put("Brightness", obs.e.locals.new_brightness.v) >>
          /\ (~is_off(obs.e.locals.current_bulb.v) /\ WroteBrightness(obs.e))
                => obs.e.puts = << Put("Brightness", obs.e.locals.new_brightness.v) >>
          /\ obs.e.err = ""
                => /\ WroteBrightness(obs.e)
                   /\ obs.e.after.history
                        = SomeHistory(obs.e.locals.now, obs.e.locals.new_brightness.v)
          /\ obs.e.err # ""
                => /\ ~WroteBrightness(obs.e)
                   /\ obs.e.after.history = obs.e.before.history
    /\ (obs.e.ran /\ obs.e.after.history.some
            /\ obs.e.after.history # obs.e.before.history)
          => /\ TargetToWrite(obs.e) /\ WroteBrightness(obs.e)
             /\ obs.e.after.history
                  = SomeHistory(obs.e.locals.now, WrittenBrightness(obs.e))

\* The bulb is off and there is no history: the run switches it on, writes
\* the target and records it.
C21_Witness ==
    /\ TargetToWrite(obs.e)
    /\ is_off(obs.e.locals.current_bulb.v)
    /\ Len(obs.e.puts) = 2
    /\ obs.e.after.history
         = SomeHistory(obs.e.locals.now, obs.e.locals.new_brightness.v)

----------------------------------------------------------------------------
(* The table of accessories, over SpecAccessory.                           *)

AccessoryAsked == call.op = "get_accessory_uuid"
AccessoryCached == call.acc_name \in DOMAIN call.hb.accessory_uuids

\* The places of the listing whose service name is exactly the name asked.
ExactMatches ==
    {i \in 1..Len(call.listing) : call.listing[i].service_name = call.acc_name}

\* C22: get_accessory_uuid answers a name of its table without any request
\* (no login, no listing); for another name it lists the accessories once,
\* stores and returns the identifier of the first accessory whose service
\* name is exactly the name, and returns UnrecognizedAccessory, storing
\* nothing, when there is none; an entry of the table is never changed or
\* removed.
C22_AccessoryTable ==
    AccessoryAsked =>
      /\ AccessoryCached =>
            /\ call.err = ""
            /\ call.ret = call.hb.accessory_uuids[call.acc_name]
            /\ call.logins = 0 /\ call.lists = 0
            /\ call.hb_after = call.hb
      /\ ~AccessoryCached =>
            /\ call.lists <= 1
            /\ call.err = "" =>
                  /\ call.lists = 1
                  /\ ExactMatches # {}
                  /\ \E i \in ExactMatches :
                        /\ \A j \in ExactMatches : i <= j
                        /\ call.ret = call.listing[i].unique_id
                  /\ call.hb_after.accessory_uuids
                        = (call.acc_name :> call.ret) @@ call.hb.accessory_uuids
            /\ call.err = "UnrecognizedAccessory" =>
                  call.lists = 1 /\ ExactMatches = {}
            /\ ( /\ call.err \notin {"UnableToConnect", "AuthError", "ParsingError",
                                    "NoAccessToken"}
                 /\ ExactMatches = {} )
                  => call.err = "UnrecognizedAccessory"
            /\ call.err # "" =>
                  call.hb_after.accessory_uuids = call.hb.accessory_uuids
      /\ \A n \in DOMAIN call.hb.accessory_uuids :
            /\ n \in DOMAIN call.hb_after.accessory_uuids
            /\ call.hb_after.accessory_uuids[n] = call.hb.accessory_uuids[n]

\* A name of the table is answered from the table although the bridge now
\* lists another accessory first under that name.
C22_Witness ==
    /\ AccessoryAsked /\ AccessoryCached
    /\ ExactMatches # {}
    /\ \E i \in ExactMatches :
          /\ \A j \in ExactMatches : i <= j
          /\ call.listing[i].unique_id # call.ret
    /\ call.lists = 0

----------------------------------------------------------------------------
(* The two fields of SunTimes, over SpecSun.                               *)

SunAsked == call.op \in {"sunrise", "sunset"}

\* Both fields absent, or both present with instants of one answer of the
\* time service (an answer carries the sunrise and the sunset of one date).
FromOneAnswer(st) ==
    /\ st.sunrise.some = st.sunset.some
    /\ st.sunrise.some =>
          /\ DateOf(st.sunrise.v) = DateOf(st.sunset.v)
          /\ TimeOf(st.sunrise.v) = SunriseTime
          /\ TimeOf(st.sunset.v) = SunsetTime

\* C23: a refresh assigns sunrise and sunset together or not at all: when
\* one of the two timestamps of the answer does not parse, both fields are
\* what they were and the call of sunrise() or sunset() that refreshed
\* returns an error; after a refresh that succeeds both fields hold the
\* instants of one answer, and the call returns its field.
C23_RefreshedTogether ==
    /\ FromOneAnswer(suntimes)
    /\ SunAsked =>
          /\ (call.reqs > 0 /\ call.err # "") => call.st_after = call.st
          /\ (call.reqs > 0 /\ call.err = "") =>
                /\ call.st_after.sunrise.some /\ call.st_after.sunset.some
                /\ FromOneAnswer(call.st_after)
                /\ call.ret = IF call.op = "sunrise" THEN call.st_after.sunrise.v
                               ELSE call.st_after.sunset.v
          /\ call.reqs = 0 => call.st_after = call.st /\ call.err = ""

\* A refresh on the second date fails to parse a timestamp: the call
\* returns ParseError and the fields keep the instants of the first date.
C23_Witness ==
    /\ SunAsked
    /\ call.reqs > 0 /\ call.err = "ParseError"
    /\ call.st.sunrise.some /\ call.st.sunset.some
    /\ DateOf(call.st.sunrise.v) < DateOf(call.start)
    /\ call.st_after = call.st

----------------------------------------------------------------------------
(* The five writes of set_bedlight, over SpecSetLight.                     *)

CharacteristicOrder ==
    <<"On", "Brightness", "ColorTemperature", "Hue", "Saturation">>

\* The place of a characteristic in the order of the writes.
OrderOf(characteristic) ==
    CHOOSE i \in 1..Len(CharacteristicOrder) : CharacteristicOrder[i] = characteristic

\* The value set_bedlight writes for a characteristic.
ValueOf(values, characteristic) ==
    CASE characteristic = "On" -> values.on
      [] characteristic = "Brightness" -> values.brightness
      [] characteristic = "ColorTemperature" -> values.color_temperature
      [] characteristic = "Hue" -> values.hue
      [] characteristic = "Saturation" -> values.saturation

\* The PUTs that reached the bridge are writes of the values asked for, in
\* the order On, Brightness, ColorTemperature, Hue, Saturation.
WritesInOrder(c) ==
    /\ \A i \in 1..Len(c.puts) :
          /\ c.puts[i].characteristic \in
                {CharacteristicOrder[k] : k \in 1..Len(CharacteristicOrder)}
          /\ c.puts[i].value = ValueOf(c.values, c.puts[i].characteristic)
    /\ \A i, j \in 1..Len(c.puts) :
          i < j => OrderOf(c.puts[i].characteristic) < OrderOf(c.puts[j].characteristic)

\* C24: set_bedlight sends the five writes in the order On, Brightness,
\* ColorTemperature, Hue, Saturation, and the failure of one write does not
\* keep the others from being sent: in a call that needs no login and no
\* listing, the network failing in at most one of its exchanges, at least
\* four of the five writes reach the bridge.
C24_WritesIndependent ==
    call.op = "set_bedlight" =>
        /\ WritesInOrder(call)
        /\ (call.logins = 0 /\ call.lists = 0)
              => Len(call.puts) >= Len(CharacteristicOrder) - 1

----------------------------------------------------------------------------
(* The token and its expiry, over SpecSession.                             *)

\* C25: access_token and access_token_expiration are assigned only
\* together: both are absent or both present; a login that succeeds
\* overwrites both; a login that fails (transport, a status other than
\* CREATED, a body that does not decode) leaves both as they were and is an
\* error of the call, and the next call of access_token logs in again.
C25_TokenAndExpiryTogether ==
    /\ homebridge.access_token.some = homebridge.access_token_expiration.some
    /\ call.op = "access_token" =>
          /\ (call.logins > 0 /\ call.err = "") =>
                /\ call.hb_after.access_token = Some(call.now)
                /\ call.hb_after.access_token_expiration
                      = Some(call.now + env.expires_in - TokenMargin)
          /\ (call.logins > 0 /\ call.err # "") =>
                /\ call.err \in {"UnableToConnect", "AuthError", "ParsingError"}
                /\ call.hb_after = call.hb
          /\ call.logins = 0 => call.hb_after = call.hb /\ call.err = ""
          /\ call.after_failed => call.logins = 1

\* A login failed while a token that had expired was held; the next call
\* logs in again and replaces the token and its expiry.
C25_Witness ==
    /\ call.op = "access_token" /\ call.after_failed
    /\ call.hb.access_token.some
    /\ call.logins = 1 /\ call.err = ""
    /\ call.hb_after.access_token # call.hb.access_token
    /\ call.hb_after.access_token_expiration # call.hb.access_token_expiration

----------------------------------------------------------------------------
(* The active flag, over SpecInactive.                                     *)

\* A run of a program whose active flag is false sends nothing to the
\* bridge and leaves the program as it was.
InactiveRunIdle(run) ==
    (run.ran /\ ~run.before.active)
        => NoBridgeRequest(run) /\ run.after = run.before

\* C26: a program whose active flag is false never acts: neither the
\* morning program nor the evening program, run with active = false, reads
\* or writes the bulb or changes its state.
C26_InactiveNeverActs == InactiveRunIdle(obs.m) /\ InactiveRunIdle(obs.e)

----------------------------------------------------------------------------
(* The interpolation inside the window, over SpecInterp.                   *)

\* The two anchors (instant, brightness) of the phase current_brightness
\* interpolates in at the instant of the call (line 104: now <= peak).
AnchorsOf(self, c) ==
    IF c.now <= c.sunset + Minutes(self.minutes_after_sunset_peak)
    THEN << [at |-> c.sunset - Minutes(self.minutes_before_sunset_start),
             brightness |-> self.start_brightness],
            [at |-> c.sunset + Minutes(self.minutes_after_sunset_peak),
             brightness |-> self.max_brightness] >>
    ELSE << [at |-> c.sunset + Minutes(self.minutes_after_sunset_peak),
             brightness |-> self.max_brightness],
            [at |-> c.sunset + Minutes(self.minutes_after_sunset_finish),
             brightness |-> self.final_brightness] >>

\* The call was made at an instant inside the window.
CalledInWindow(self, c) ==
    /\ c.op = "current_brightness"
    /\ InPhaseA(self, c.now, c.sunset) \/ InPhaseB(self, c.now, c.sunset)

\* b lies between the brightnesses of the two anchors.
BetweenAnchors(anchors, b) ==
    /\ Min(anchors[1].brightness, anchors[2].brightness) <= b
    /\ b <= Max(anchors[1].brightness, anchors[2].brightness)

\* C27: for every accepted configuration and every instant inside the
\* window, the two anchors of the phase differ in their seconds since
\* midnight, so that the slope divides by a time difference that is not 0,
\* and the target computed lies between the brightnesses of the two anchors
\* (the cast to u8 may take it 1 below): also where start = peak, where
\* peak = end, and where the window passes midnight.
C27_TargetBetweenAnchors ==
    CalledInWindow(evening_lights_prog, call) =>
        /\ SecFromMidnight(AnchorsOf(evening_lights_prog, call)[1].at)
              # SecFromMidnight(AnchorsOf(evening_lights_prog, call)[2].at)
        /\ \/ BetweenAnchors(AnchorsOf(evening_lights_prog, call), call.ret)
           \/ BetweenAnchors(AnchorsOf(evening_lights_prog, call), call.ret + 1)

====
